---- MODULE Spec2Model ----
(***************************************************************************)
(* Streaming multipart/form-data parser of Tripod311/currents              *)
(* (class Parser and the StreamingMultipartBody middleware).               *)
(*                                                                         *)
(* Bytes are one-character strings; every body used here is ASCII, so a    *)
(* byte is a character and Buffer.toString('utf-8') keeps the sequence.    *)
(***************************************************************************)
EXTENDS Integers, Sequences, FiniteSets, TLC

(* ---------------------------------------------------------------- bounds *)

\* limits that no body of the model reaches
LargeSize == 200
\* limits that some bodies of the model reach
TightFileSize == 4
TightFieldSize == 3
TightHeaderSize == 60
\* the request size limit: some bodies of the model are longer, some shorter
RequestSize == 150
\* the count limits and the timeouts, in units of time
PartLimit == 2
FileLimit == 1
ChunkTime == 1
RequestTime == 2
\* the size of the chunks the stream delivers under Spec (the last one is shorter)
ChunkSize == 8
\* the longest chunk under SpecCuts, apart from "everything that is left"
MaxChunk == 9

\* the StreamingMultipartOptions a request may be parsed under
OptionSets ==
    { [maxFileSize |-> LargeSize, maxFieldSize |-> LargeSize,
       maxPartHeaderSize |-> LargeSize, maxRequestSize |-> RequestSize,
       maxParts |-> PartLimit, maxFiles |-> FileLimit,
       chunkTimeout |-> ChunkTime, requestTimeout |-> RequestTime],
      [maxFileSize |-> TightFileSize, maxFieldSize |-> TightFieldSize,
       maxPartHeaderSize |-> TightHeaderSize, maxRequestSize |-> RequestSize,
       maxParts |-> PartLimit, maxFiles |-> FileLimit,
       chunkTimeout |-> ChunkTime, requestTimeout |-> RequestTime] }

VARIABLE options   \* this.options of the Parser

(* ------------------------------------------------- JavaScript primitives *)

Min(S) == CHOOSE x \in S : \A y \in S : x <= y

\* Buffer.indexOf / String.indexOf: 0-based index of the first occurrence, -1 if none
IndexOf(b, pat) ==
    LET S == { i \in 0..(Len(b) - Len(pat)) :
                 \A j \in 1..Len(pat) : b[i + j] = pat[j] }
    IN IF S = {} THEN -1 ELSE Min(S)

\* an index argument of subarray/slice: negative counts from the end, then clamped
ClampIndex(i, n) ==
    IF i < 0 THEN (IF n + i < 0 THEN 0 ELSE n + i)
    ELSE IF i > n THEN n ELSE i

\* Buffer.subarray(start, end) / String.slice(start, end), 0-based, end exclusive
Subarray(b, start, end) ==
    LET s == ClampIndex(start, Len(b))
        e == ClampIndex(end, Len(b))
    IN IF e <= s THEN <<>> ELSE SubSeq(b, s + 1, e)

\* Buffer.subarray(start) / String.slice(start)
SubarrayFrom(b, start) == Subarray(b, start, Len(b))

StartsWith(s, pre) ==
    Len(s) >= Len(pre) /\ SubSeq(s, 1, Len(pre)) = pre

EndsWith(s, suf) ==
    Len(s) >= Len(suf) /\ SubSeq(s, Len(s) - Len(suf) + 1, Len(s)) = suf

\* String.split(sep) for a non-empty separator
RECURSIVE Split(_, _)
Split(s, sep) ==
    LET i == IndexOf(s, sep)
    IN IF i = -1 THEN <<s>>
       ELSE <<SubSeq(s, 1, i)>> \o Split(SubSeq(s, i + Len(sep) + 1, Len(s)), sep)

WhiteSpace == {" ", "\t", "\r", "\n"}

\* String.trim()
Trim(s) ==
    LET K == { i \in 1..Len(s) : s[i] \notin WhiteSpace }
    IN IF K = {} THEN <<>>
       ELSE SubSeq(s, Min(K), CHOOSE m \in K : \A k \in K : k <= m)

UpperToLower ==
    [c \in {"A","B","C","D","E","F","G","H","I","J","K","L","M",
            "N","O","P","Q","R","S","T","U","V","W","X","Y","Z"} |->
       CASE c = "A" -> "a" [] c = "B" -> "b" [] c = "C" -> "c" [] c = "D" -> "d"
         [] c = "E" -> "e" [] c = "F" -> "f" [] c = "G" -> "g" [] c = "H" -> "h"
         [] c = "I" -> "i" [] c = "J" -> "j" [] c = "K" -> "k" [] c = "L" -> "l"
         [] c = "M" -> "m" [] c = "N" -> "n" [] c = "O" -> "o" [] c = "P" -> "p"
         [] c = "Q" -> "q" [] c = "R" -> "r" [] c = "S" -> "s" [] c = "T" -> "t"
         [] c = "U" -> "u" [] c = "V" -> "v" [] c = "W" -> "w" [] c = "X" -> "x"
         [] c = "Y" -> "y" [] c = "Z" -> "z"]

\* String.toLowerCase() on ASCII
ToLowerCase(s) ==
    [i \in 1..Len(s) |-> IF s[i] \in DOMAIN UpperToLower THEN UpperToLower[s[i]] ELSE s[i]]

(* ------------------------------------------------------- parser constants *)

CRLF == <<"\r", "\n">>
DASHES == <<"-", "-">>
\* the boundary parameter of the request's content-type
boundary == <<"B">>
firstBoundary == DASHES \o boundary
centerBoundary == CRLF \o DASHES \o boundary
HEADER_END == CRLF \o CRLF

KeyContentDisposition == <<"c","o","n","t","e","n","t","-","d","i","s","p","o","s","i","t","i","o","n">>
KeyContentType == <<"c","o","n","t","e","n","t","-","t","y","p","e">>
FormData == <<"f","o","r","m","-","d","a","t","a">>
KeyName == <<"n","a","m","e">>
KeyFilename == <<"f","i","l","e","n","a","m","e">>

\* an optional string (null / undefined in JavaScript): None, or Some(value)
None == <<>>
Some(v) == <<v>>
\* fileStream = null, tmpFileName = "": no temp file
NoStream == 0
\* no error thrown
NoError == ""

\* Number(s) for the strings the model uses: an optional minus sign and decimal
\* digits give the integer, anything else gives NaN (finite FALSE)
DigitValue ==
    [c \in {"0","1","2","3","4","5","6","7","8","9"} |->
       CASE c = "0" -> 0 [] c = "1" -> 1 [] c = "2" -> 2 [] c = "3" -> 3 [] c = "4" -> 4
         [] c = "5" -> 5 [] c = "6" -> 6 [] c = "7" -> 7 [] c = "8" -> 8 [] c = "9" -> 9]

RECURSIVE DigitsValue(_, _)
DigitsValue(s, acc) ==
    IF s = <<>> THEN acc ELSE DigitsValue(Tail(s), 10 * acc + DigitValue[Head(s)])

ToNumber(s) ==
    LET neg == s # <<>> /\ Head(s) = "-"
        digits == IF neg THEN Tail(s) ELSE s
    IN IF digits # <<>> /\ \A i \in 1..Len(digits) : digits[i] \in DOMAIN DigitValue
       THEN [finite |-> TRUE,
             value |-> IF neg THEN 0 - DigitsValue(digits, 0) ELSE DigitsValue(digits, 0)]
       ELSE [finite |-> FALSE, value |-> 0]

(* ------------------------------------------------------------ the Parser *)

\* the fields of a Parser after construction, with the temp directory it writes to:
\* files[i] is the content written to temp file i, exists the temp files on disk,
\* ended the write streams on which end() was called
NewParser ==
    [ state |-> "boundary",
      processingBuffer |-> <<>>,
      passedFirstBoundary |-> FALSE,
      fileStream |-> NoStream,
      partName |-> <<>>,
      tmpFileName |-> NoStream,
      originalFileName |-> <<>>,
      mime |-> <<>>,
      result |-> <<>>,
      partCounter |-> 0,
      fileCounter |-> 0,
      fileByteCounter |-> 0,
      files |-> <<>>,
      exists |-> {},
      ended |-> {},
      endedTwice |-> {},
      writeAfterEnd |-> FALSE,
      thrown |-> NoError ]

\* throw new Error(msg)
Throw(p, msg) == [p EXCEPT !.thrown = msg]

\* an assignment that keeps the value an existing key has
SetResult_FirstWins(result, entry) ==
    IF \E i \in 1..Len(result) : result[i].name = entry.name
    THEN result
    ELSE Append(result, entry)

\* this.result[name] = value on a plain object: a new key is appended, an
\* existing key keeps its place and takes the new value
SetResult(result, entry) ==
    IF \E i \in 1..Len(result) : result[i].name = entry.name
    THEN [i \in 1..Len(result) |->
            IF result[i].name = entry.name THEN entry ELSE result[i]]
    ELSE Append(result, entry)

StringEntry(name, body) ==
    [name |-> name, isFile |-> FALSE, str |-> body,
     tmpLink |-> NoStream, originalFileName |-> <<>>, mime |-> <<>>]

\* new StreamingMultipartFile(tmpLink, originalFileName, mime)
FileEntry(name, tmpLink, originalFileName, mime) ==
    [name |-> name, isFile |-> TRUE, str |-> <<>>,
     tmpLink |-> tmpLink, originalFileName |-> originalFileName, mime |-> mime]

\* fs.createWriteStream on a fresh random name: the file is created empty
CreateWriteStream(p) ==
    LET id == Len(p.files) + 1
    IN [p EXCEPT !.tmpFileName = id,
                 !.fileStream = id,
                 !.fileByteCounter = 0,
                 !.files = Append(@, <<>>),
                 !.exists = @ \cup {id}]

\* fileStream.write(data): appended to the file; a write on a stream that was
\* ended emits an 'error' event instead
StreamWrite(p, data) ==
    IF p.fileStream \in p.ended
    THEN [p EXCEPT !.writeAfterEnd = TRUE]
    ELSE [p EXCEPT !.files[p.fileStream] = @ \o data]

\* fileStream.end()
StreamEnd(p) ==
    [p EXCEPT !.endedTwice = IF p.fileStream \in p.ended THEN @ \cup {p.fileStream} ELSE @,
              !.ended = @ \cup {p.fileStream}]

RECURSIVE processHeader(_, _)

\* processBody with the part count compared by >= where the code has >
processBody_CountOffByOne(p, chunk) ==
    LET b == p.processingBuffer \o chunk
        index == IndexOf(b, centerBoundary)
    IN IF index = -1
       THEN IF Len(b) >= options.maxFieldSize
            THEN Throw(p, "Part exceeding maxFieldSize")
            ELSE [p EXCEPT !.processingBuffer = b]
       ELSE LET body == Subarray(b, 0, index)
                p1 == [p EXCEPT !.processingBuffer = SubarrayFrom(b, index + Len(centerBoundary)),
                                !.result = SetResult(@, StringEntry(p.partName, body)),
                                !.state = "header",
                                !.partCounter = @ + 1]
            IN IF p1.partCounter >= options.maxParts
               THEN Throw(p1, "MaxParts exceeded")
               ELSE processHeader(p1, <<>>)

\* processBody that stores the field and returns, leaving the rest of the
\* buffer for the next chunk
processBody_StopsAfterPart(p, chunk) ==
    LET b == p.processingBuffer \o chunk
        index == IndexOf(b, centerBoundary)
    IN IF index = -1
       THEN IF Len(b) >= options.maxFieldSize
            THEN Throw(p, "Part exceeding maxFieldSize")
            ELSE [p EXCEPT !.processingBuffer = b]
       ELSE LET body == Subarray(b, 0, index)
                p1 == [p EXCEPT !.processingBuffer = SubarrayFrom(b, index + Len(centerBoundary)),
                                !.result = SetResult(@, StringEntry(p.partName, body)),
                                !.state = "header",
                                !.partCounter = @ + 1]
            IN IF p1.partCounter > options.maxParts
               THEN Throw(p1, "MaxParts exceeded")
               ELSE p1

processBody(p, chunk) ==
    LET b == p.processingBuffer \o chunk
        index == IndexOf(b, centerBoundary)
    IN IF index = -1
       THEN IF Len(b) >= options.maxFieldSize
            THEN Throw(p, "Part exceeding maxFieldSize")
            ELSE [p EXCEPT !.processingBuffer = b]
       ELSE LET body == Subarray(b, 0, index)
                p1 == [p EXCEPT !.processingBuffer = SubarrayFrom(b, index + Len(centerBoundary)),
                                !.result = SetResult(@, StringEntry(p.partName, body)),
                                !.state = "header",
                                !.partCounter = @ + 1]
            IN IF p1.partCounter > options.maxParts
               THEN Throw(p1, "MaxParts exceeded")
               ELSE processHeader(p1, <<>>)

processFile(p, chunk) ==
    LET p0 == IF p.fileStream = NoStream THEN CreateWriteStream(p) ELSE p
        b == p0.processingBuffer \o chunk
        index == IndexOf(b, centerBoundary)
    IN IF index = -1
       THEN LET filePart == Subarray(b, 0, Len(b) - Len(centerBoundary) - 4)
                p1 == [p0 EXCEPT !.fileByteCounter = @ + Len(filePart)]
            IN IF p1.fileByteCounter >= options.maxFileSize
               THEN Throw(p1, "File too large")
               ELSE StreamWrite(
                      [p1 EXCEPT !.processingBuffer =
                                    SubarrayFrom(b, Len(b) - Len(centerBoundary) - 4)],
                      filePart)
       ELSE LET filePart == Subarray(b, 0, index)
                p1 == [p0 EXCEPT !.fileByteCounter = @ + Len(filePart)]
            IN IF p1.fileByteCounter >= options.maxFileSize
               THEN Throw(p1, "File too large")
               ELSE LET p2 == StreamEnd(StreamWrite(
                                [p1 EXCEPT !.processingBuffer =
                                              SubarrayFrom(b, index + Len(centerBoundary))],
                                filePart))
                        p3 == [p2 EXCEPT !.result = SetResult(@,
                                            FileEntry(p2.partName, p2.tmpFileName,
                                                      p2.originalFileName, p2.mime)),
                                         !.fileStream = NoStream,
                                         !.state = "header",
                                         !.partCounter = @ + 1]
                    IN IF p3.partCounter > options.maxParts
                       THEN Throw(p3, "MaxParts exceeded")
                       ELSE LET p4 == [p3 EXCEPT !.fileCounter = @ + 1]
                            IN IF p4.fileCounter > options.maxFiles
                               THEN Throw(p4, "MaxFiles exceeded")
                               ELSE processHeader(p4, <<>>)

\* the value of the last header line whose key is `key`, None if there is none
RECURSIVE HeaderValue(_, _, _)
HeaderValue(lines, key, found) ==
    IF lines = <<>> THEN found
    ELSE LET line == Head(lines)
             idx == IndexOf(line, <<":">>)
         IN IF idx = -1 THEN HeaderValue(Tail(lines), key, found)
            ELSE IF ToLowerCase(Trim(Subarray(line, 0, idx))) = key
                 THEN HeaderValue(Tail(lines), key, Some(Trim(SubarrayFrom(line, idx + 1))))
                 ELSE HeaderValue(Tail(lines), key, found)

\* a Content-Disposition parameter value: trimmed, surrounding quotes removed
Unquote(raw) ==
    LET value == Trim(raw)
    IN IF StartsWith(value, <<"\"">>) /\ EndsWith(value, <<"\"">>)
       THEN Subarray(value, 1, -1)
       ELSE value

\* the value of the last `key=` parameter among dParts, None if there is none
RECURSIVE DispositionParam(_, _, _)
DispositionParam(dParts, key, found) ==
    IF dParts = <<>> THEN found
    ELSE LET part == Head(dParts)
             eIndex == IndexOf(part, <<"=">>)
         IN IF eIndex = -1 THEN DispositionParam(Tail(dParts), key, found)
            ELSE IF ToLowerCase(Trim(Subarray(part, 0, eIndex))) = key
                 THEN DispositionParam(Tail(dParts), key,
                                       Some(Unquote(SubarrayFrom(part, eIndex + 1))))
                 ELSE DispositionParam(Tail(dParts), key, found)

\* a part is a file when its disposition has no filename parameter that is
\* a non-empty string (an empty filename makes it a field)
IsFilePart_NonEmpty(filename) == filename # None /\ filename # Some(<<>>)

\* `filename !== undefined`: a part is a file when its disposition carries a
\* filename parameter, whatever its value
IsFilePart(filename) == filename # None

processHeader(p, chunk) ==
    LET b == p.processingBuffer \o chunk
        index == IndexOf(b, HEADER_END)
    IN IF StartsWith(Subarray(b, 0, 2), DASHES)
       THEN [p EXCEPT !.state = "end"]
       ELSE IF index = -1
       THEN IF Len(b) >= options.maxPartHeaderSize
            THEN Throw(p, "Part header exceeding maxPartHeaderSize")
            ELSE [p EXCEPT !.processingBuffer = b]
       ELSE LET headerPart == Subarray(b, 0, index)
                p1 == [p EXCEPT !.processingBuffer = SubarrayFrom(b, index + Len(HEADER_END))]
                lines == Split(headerPart, CRLF)
                contentDisposition == HeaderValue(lines, KeyContentDisposition, None)
                contentType == HeaderValue(lines, KeyContentType, None)
            IN IF contentDisposition = None \/ contentDisposition = Some(<<>>)
               THEN Throw(p1, "Missing Content-Disposition")
               ELSE LET dParts == Split(contentDisposition[1], <<";">>)
                        name == DispositionParam(dParts, KeyName, None)
                        filename == DispositionParam(dParts, KeyFilename, None)
                    IN IF ToLowerCase(dParts[1]) # FormData
                       THEN Throw(p1, "Invalid Content-Disposition type")
                       ELSE IF name = None
                       THEN Throw(p1, "Missing part name")
                       ELSE IF IsFilePart(filename)
                       THEN processFile(
                              [p1 EXCEPT !.partName = name[1],
                                         !.originalFileName = filename[1],
                                         !.mime = IF contentType = None THEN <<>> ELSE contentType[1],
                                         !.state = "file"],
                              <<>>)
                       ELSE processBody([p1 EXCEPT !.partName = name[1], !.state = "body"], <<>>)

\* processBoundary that keeps everything buffered while the boundary is not found
processBoundary_KeepsAll(p, chunk) ==
    LET b == p.processingBuffer \o chunk
        searchBoundary == IF p.passedFirstBoundary THEN centerBoundary ELSE firstBoundary
        index == IndexOf(b, searchBoundary)
    IN IF index # -1
       THEN processHeader(
              [p EXCEPT !.state = "header",
                        !.passedFirstBoundary = TRUE,
                        !.processingBuffer = SubarrayFrom(b, index + Len(searchBoundary))],
              <<>>)
       ELSE [p EXCEPT !.processingBuffer = b]

processBoundary(p, chunk) ==
    LET b == p.processingBuffer \o chunk
        searchBoundary == IF p.passedFirstBoundary THEN centerBoundary ELSE firstBoundary
        index == IndexOf(b, searchBoundary)
    IN IF index # -1
       THEN processHeader(
              [p EXCEPT !.state = "header",
                        !.passedFirstBoundary = TRUE,
                        !.processingBuffer = SubarrayFrom(b, index + Len(searchBoundary))],
              <<>>)
       ELSE LET tail == Len(searchBoundary) + 4
            IN IF Len(b) > tail
               THEN [p EXCEPT !.processingBuffer = SubarrayFrom(b, Len(b) - tail)]
               ELSE [p EXCEPT !.processingBuffer = b]

\* the switch of processChunk with 'end' handled like 'boundary'
Dispatch_EndKeepsScanning(p, chunk) ==
    CASE p.state = "boundary" -> processBoundary(p, chunk)
      [] p.state = "header" -> processHeader(p, chunk)
      [] p.state = "body" -> processBody(p, chunk)
      [] p.state = "file" -> processFile(p, chunk)
      [] p.state = "end" -> processBoundary(p, chunk)

\* the switch of processChunk; an error thrown inside is left in .thrown
Dispatch(p, chunk) ==
    CASE p.state = "boundary" -> processBoundary(p, chunk)
      [] p.state = "header" -> processHeader(p, chunk)
      [] p.state = "body" -> processBody(p, chunk)
      [] p.state = "file" -> processFile(p, chunk)
      [] p.state = "end" -> p

\* reject(err.toString()) of an Error: "Error: " followed by the message
ErrToString(msg) == <<"Error: ", msg>>

(* ------------------------------------------- the middleware's pre-checks *)

MultipartFormData == <<"m","u","l","t","i","p","a","r","t","/","f","o","r","m","-","d","a","t","a">>
KeyBoundary == <<"b","o","u","n","d","a","r","y","=">>

\* the content-type headers a request may carry (None: no such header)
ContentTypes ==
    { None,
      Some(<<"t","e","x","t","/","p","l","a","i","n">>),
      Some(MultipartFormData),
      Some(MultipartFormData \o <<";"," ","c","h","a","r","s","e","t","=","x">>),
      Some(MultipartFormData \o <<";"," ","b","o","u","n","d","a","r","y","=">> \o boundary) }

\* the content-length headers a request may carry (None: no such header)
ContentLengths ==
    { None, Some(<<"1">>), Some(<<"9","9","9">>), Some(<<"a","b","c">>), Some(<<"-","1">>) }

\* validateOptions that does not look at content-length
validateOptions_NoLengthCheck(h) ==
    IF h.contentType = None \/ h.contentType = Some(<<>>)
    THEN "Missing Content-Type"
    ELSE IF ~StartsWith(h.contentType[1], MultipartFormData)
    THEN "Invalid Content-Type"
    ELSE NoError

\* validateOptions(ctx, options) for the headers h: the message of the error
\* it throws, NoError when it returns
validateOptions(h) ==
    IF h.contentType = None \/ h.contentType = Some(<<>>)
    THEN "Missing Content-Type"
    ELSE IF ~StartsWith(h.contentType[1], MultipartFormData)
    THEN "Invalid Content-Type"
    ELSE IF h.contentLength = None \/ h.contentLength = Some(<<>>)
    THEN NoError
    ELSE LET len == ToNumber(h.contentLength[1])
         IN IF ~len.finite \/ len.value < 0
            THEN "Invalid Content-Length"
            ELSE IF len.value > options.maxRequestSize
            THEN "Request too large"
            ELSE NoError

\* the loop of readBoundary over the parameters ct: the text after '=' of the
\* first one that starts with 'boundary=', None if there is none
RECURSIVE BoundaryParam(_)
BoundaryParam(ct) ==
    IF ct = <<>> THEN None
    ELSE LET str == Trim(Head(ct))
         IN IF StartsWith(str, KeyBoundary)
            THEN Some(SubarrayFrom(str, IndexOf(str, <<"=">>) + 1))
            ELSE BoundaryParam(Tail(ct))

\* readBoundary(ctx): None where it throws 'No boundary'
readBoundary(h) == BoundaryParam(Split(h.contentType[1], <<";">>))

(* --------------------------------------------------------- request bodies *)

HdrFieldA == <<"C","o","n","t","e","n","t","-","D","i","s","p","o","s","i","t","i","o","n",":"," ","f","o","r","m","-","d","a","t","a",";"," ","n","a","m","e","=","\"","a","\"">>
HdrFieldB == <<"c","o","n","t","e","n","t","-","d","i","s","p","o","s","i","t","i","o","n",":","f","o","r","m","-","d","a","t","a",";","n","a","m","e","=","b">>
HdrFileU == <<"C","o","n","t","e","n","t","-","D","i","s","p","o","s","i","t","i","o","n",":"," ","f","o","r","m","-","d","a","t","a",";"," ","n","a","m","e","=","\"","u","\"",";"," ","f","i","l","e","n","a","m","e","=","\"","f","\"">>
HdrFileV == <<"c","o","n","t","e","n","t","-","d","i","s","p","o","s","i","t","i","o","n",":","f","o","r","m","-","d","a","t","a",";","n","a","m","e","=","u",";","f","i","l","e","n","a","m","e","=","g">>
HdrType == <<"C","o","n","t","e","n","t","-","T","y","p","e",":"," ","t">>

\* one part as it follows a boundary: CRLF, header lines, blank line, content
\* and the center boundary that ends it
Part(header, content) == CRLF \o header \o HEADER_END \o content \o centerBoundary

ContentA == <<"h","i">>
ContentB == <<"y","o","u">>
ContentU == <<"x","y","z","w","v">>
ContentV == <<"1","2">>

FieldA == Part(HdrFieldA, ContentA)
FieldB == Part(HdrFieldB, ContentB)
FileU == Part(HdrFileU \o CRLF \o HdrType, ContentU)
FileV == Part(HdrFileV, ContentV)
\* fields that repeat the names a and b with other values
FieldA2 == Part(HdrFieldA, ContentB)
FieldB2 == Part(HdrFieldB, ContentA)
Closing == DASHES \o CRLF
\* an epilogue after the closing delimiter, longer than two chunks
Epilogue == <<"e","p","i","l","o","g","u","e"," ","t","o"," ","i","g","n","o","r","e",".">>

\* a preamble longer than the tail processBoundary retains
Preamble == <<"p","r","e","a","m","b","l","e"," ","t","e","x","t">>

\* the bodies a request may carry
Bodies ==
    << firstBoundary \o FieldA \o FileU \o Closing \o Epilogue,
       firstBoundary \o FileU \o FieldA \o Closing,
       <<"p","r","e">> \o CRLF \o firstBoundary \o FileU \o FileU \o Closing,
       firstBoundary \o FieldA \o FieldB \o FieldA2 \o Closing,
       firstBoundary \o FieldA \o FileV \o FileU \o Closing,
       Preamble \o CRLF \o firstBoundary \o FieldB \o FieldB2 \o Closing >>

\* part headers that exercise the parsing of Content-Disposition
HdrFileEmpty == <<"C","o","n","t","e","n","t","-","D","i","s","p","o","s","i","t","i","o","n",":"," ","f","o","r","m","-","d","a","t","a",";"," ","n","a","m","e","=","\"","e","\"",";"," ","f","i","l","e","n","a","m","e","=","\"","\"">>
HdrFileQuoted == <<"C","o","n","t","e","n","t","-","D","i","s","p","o","s","i","t","i","o","n",":"," ","f","o","r","m","-","d","a","t","a",";"," ","n","a","m","e","=","\"","a"," ","b","\"",";"," ","f","i","l","e","n","a","m","e","=","\"","x"," ","y",".","p","n","g","\"">>
HdrFieldQuoted == <<"c","o","n","t","e","n","t","-","d","i","s","p","o","s","i","t","i","o","n",":"," ","F","O","R","M","-","D","A","T","A",";"," ","N","A","M","E","=","\"","a"," ","b","\"">>
HdrFieldSemicolon == <<"C","o","n","t","e","n","t","-","D","i","s","p","o","s","i","t","i","o","n",":"," ","f","o","r","m","-","d","a","t","a",";"," ","n","a","m","e","=","\"","a",";","b","\"">>
HdrNoDisposition == <<"C","o","n","t","e","n","t","-","T","y","p","e",":"," ","t">>
HdrAttachment == <<"C","o","n","t","e","n","t","-","D","i","s","p","o","s","i","t","i","o","n",":"," ","a","t","t","a","c","h","m","e","n","t",";"," ","n","a","m","e","=","\"","a","\"">>
HdrNoName == <<"C","o","n","t","e","n","t","-","D","i","s","p","o","s","i","t","i","o","n",":"," ","f","o","r","m","-","d","a","t","a",";"," ","f","i","l","e","n","a","m","e","=","\"","f","\"">>

\* bodies of one or two parts built on those headers
PartBodies ==
    << firstBoundary \o Part(HdrFileEmpty, ContentV) \o Closing,
       firstBoundary \o Part(HdrFileQuoted \o CRLF \o HdrType, ContentV) \o Closing,
       firstBoundary \o Part(HdrFieldQuoted, ContentA) \o Closing,
       firstBoundary \o Part(HdrFieldSemicolon, ContentA) \o Closing,
       firstBoundary \o FieldB \o Part(HdrNoDisposition, ContentA) \o Closing,
       firstBoundary \o FieldB \o Part(HdrAttachment, ContentA) \o Closing,
       firstBoundary \o FileV \o Part(HdrNoName, ContentA) \o Closing >>

(* ------------------------------------------------------------------ state *)

VARIABLES
    headers,       \* the content-type and content-length headers of the request
    parser,        \* the Parser's fields and the temp directory
    bodyId,        \* which of Bodies the request stream carries
    pos,           \* number of bytes of the body delivered so far
    stream,        \* "open", "ended" ('end' emitted), "closed" ('close' emitted)
    outcome,       \* readyPromise: "none" while no Parser was constructed, then
                   \* "pending", "resolved", "rejected"
    reason,        \* the value readyPromise was rejected with
    settledBy,     \* the callback that settled readyPromise
    chunkArmed,    \* chunkTimeout is a pending timer
    requestArmed,  \* requestTimeout is a pending timer
    sinceChunk,    \* time since chunkTimeout was armed
    elapsed,       \* time since the Parser was constructed (kept up to the
                   \* first unit past options.requestTimeout)
    requestDeadline, \* the time at which the request timer is set to fire
    hpc,           \* where the middleware's handler stands
    rmTarget,      \* the temp file of the rm the handler awaits
    loopKeys,      \* the keys the for-in loop of cleanup has yet to visit
    response,      \* status of the response sent, 0 when none was sent
    ctxBody,       \* ctx.body was assigned parser.result
    crashed,       \* an 'error' event without listener ended the process
    lastThrown,    \* the error the last processChunk caught
    prevState,     \* this.state when the last chunk arrived
    chunkFires,    \* for each run of rejectChunk, the temp file that was open
                   \* then (NoStream when none was)
    finished,      \* the temp files whose write stream has written everything
                   \* and closed the file ('finish')
    locals,        \* the keys of ctx.locals that are defined
    caller,        \* what a later handler of the chain did with the result:
                   \* its call, the error it got, the files now at a new path
    chain          \* Currents.runHandlers: the handlers of the route and of the
                   \* not-found chain, ctx.finished and ctx.notFound, and how
                   \* far each call of runHandlers has come

vars == <<options, headers, parser, bodyId, pos, stream, outcome, reason, settledBy, chunkArmed,
          requestArmed, sinceChunk, elapsed, requestDeadline, hpc, rmTarget,
          loopKeys, response, ctxBody, crashed, lastThrown, prevState,
          chunkFires, finished, locals, caller, chain>>

callerVars == <<finished, locals, caller, chain>>

handlerVars == <<hpc, rmTarget, loopKeys, response, ctxBody>>
timerVars == <<chunkArmed, requestArmed, sinceChunk, elapsed, requestDeadline>>

body == IF bodyId <= Len(Bodies) THEN Bodies[bodyId] ELSE PartBodies[bodyId - Len(Bodies)]

\* runHandlers was not called yet: handlers `kinds` for the route, `nfKinds`
\* for the not-found chain, and whether the router matched the path
NewChain(kinds, nfKinds, matched) ==
    [ kinds |-> kinds,
      nfKinds |-> nfKinds,
      matched |-> matched,
      finished |-> FALSE,
      notFound |-> FALSE,
      outer |-> "idle",
      index |-> 0,
      completed |-> 0,
      started |-> <<>>,
      inner |-> <<>>,
      nfStarted |-> <<>>,
      errored |-> FALSE,
      warned |-> FALSE ]

\* the handler chain plays no part
NoChain == NewChain(<<>>, <<>>, TRUE)

\* a request reaches the middleware: no Parser exists yet
InitRequest ==
    /\ options \in OptionSets
    /\ headers \in [contentType : ContentTypes, contentLength : ContentLengths]
    /\ parser = NewParser
    /\ pos = 0
    /\ stream = "open"
    /\ outcome = "none"
    /\ reason = <<>>
    /\ settledBy = ""
    /\ chunkArmed = FALSE
    /\ requestArmed = FALSE
    /\ sinceChunk = 0
    /\ elapsed = 0
    /\ requestDeadline = options.requestTimeout
    /\ hpc = "entry"
    /\ rmTarget = NoStream
    /\ loopKeys = <<>>
    /\ response = 0
    /\ ctxBody = FALSE
    /\ crashed = FALSE
    /\ lastThrown = NoError
    /\ prevState = ""
    /\ chunkFires = {}
    /\ finished = {}
    /\ locals = {}
    /\ caller = [call |-> "", target |-> NoStream, thrown |-> NoError, moved |-> {}]

Init ==
    /\ bodyId \in 1..Len(Bodies)
    /\ InitRequest
    /\ chain = NoChain

(* ---------------------------------------------- the handler and cleanup() *)

\* the handler up to its first await: validateOptions and readBoundary, whose
\* errors reach the error handler of runHandlers (a 500 response), then
\* new Parser(...): listeners on the stream, readyPromise and both timers.
\* Every content-type of the model that carries a boundary carries `boundary`.
StreamingMultipartBody ==
    /\ hpc = "entry"
    /\ IF validateOptions(headers) # NoError
       THEN /\ hpc' = "refused"
            /\ response' = 500
            /\ reason' = ErrToString(validateOptions(headers))
            /\ UNCHANGED <<outcome, chunkArmed, requestArmed>>
       ELSE IF readBoundary(headers) = None
       THEN /\ hpc' = "refused"
            /\ response' = 500
            /\ reason' = ErrToString("StreamingMultipartBody error: No boundary")
            /\ UNCHANGED <<outcome, chunkArmed, requestArmed>>
       ELSE /\ hpc' = "await"
            /\ outcome' = "pending"
            /\ chunkArmed' = TRUE
            /\ requestArmed' = TRUE
            /\ UNCHANGED <<response, reason>>
    /\ UNCHANGED <<callerVars, options, headers, parser, bodyId, pos, stream, settledBy, sinceChunk,
                   elapsed, requestDeadline, rmTarget, loopKeys, ctxBody, crashed,
                   lastThrown, prevState, chunkFires>>

\* the keys of this.result in enumeration order
ResultKeys(p) == [i \in 1..Len(p.result) |-> p.result[i].name]

\* this.result[name]
ResultAt(p, name) ==
    p.result[CHOOSE i \in 1..Len(p.result) : p.result[i].name = name]

\* the keys left once the leading keys whose value is a string are skipped
RECURSIVE SkipStrings(_, _)
SkipStrings(p, keys) ==
    IF keys = <<>> THEN keys
    ELSE IF ResultAt(p, Head(keys)).isFile THEN keys
    ELSE SkipStrings(p, Tail(keys))

\* the for-in loop of cleanup() run until its next await: clear() of the next
\* file handle is started, or the loop is over and the handler sends the 500
CleanupLoop(p, keys) ==
    LET rest == SkipStrings(p, keys)
    IN IF rest = <<>>
       THEN /\ hpc' = "sent500"
            /\ response' = 500
            /\ rmTarget' = NoStream
            /\ loopKeys' = <<>>
       ELSE /\ hpc' = "rmLoop"
            /\ rmTarget' = ResultAt(p, Head(rest)).tmpLink
            /\ loopKeys' = Tail(rest)
            /\ UNCHANGED response

\* the catch block of the handler up to its first await, from parser fields p:
\* cleanup() ends the open write stream and starts rm(tmpFileName), or goes
\* straight to the loop
CleanupStart(p) ==
    /\ UNCHANGED ctxBody
    /\ IF p.fileStream # NoStream
       THEN /\ parser' = StreamEnd(p)
            /\ hpc' = "rmOpen"
            /\ rmTarget' = p.tmpFileName
            /\ loopKeys' = <<>>
            /\ UNCHANGED response
       ELSE /\ parser' = p
            /\ CleanupLoop(p, ResultKeys(p))

\* this.reject(r) that settles nothing
Reject_Ignored(p, r, by) ==
    /\ parser' = p
    /\ UNCHANGED <<outcome, reason, settledBy, handlerVars>>

\* this.reject(r) with the parser fields at p: the first settlement wins and
\* wakes the handler, a later one is ignored
Reject(p, r, by) ==
    IF outcome = "pending"
    THEN /\ outcome' = "rejected"
         /\ reason' = r
         /\ settledBy' = by
         /\ CleanupStart(p)
    ELSE /\ parser' = p
         /\ UNCHANGED <<outcome, reason, settledBy, handlerVars>>

\* this.resolve() with a handler that assigns ctx.body and leaves both timers
\* armed
Resolve_KeepsTimers ==
    IF outcome = "pending"
    THEN /\ outcome' = "resolved"
         /\ settledBy' = "finalize"
         /\ hpc' = "done"
         /\ ctxBody' = TRUE
         /\ UNCHANGED <<reason, rmTarget, loopKeys, response, timerVars>>
    ELSE UNCHANGED <<outcome, settledBy, reason, handlerVars, timerVars>>

\* this.resolve() that settles again a promise that was settled
Resolve_Resettles ==
    /\ outcome' = "resolved"
    /\ settledBy' = "finalize"
    /\ hpc' = "done"
    /\ ctxBody' = TRUE
    /\ chunkArmed' = FALSE
    /\ requestArmed' = FALSE
    /\ sinceChunk' = 0
    /\ UNCHANGED <<reason, rmTarget, loopKeys, response, elapsed, requestDeadline>>

\* this.resolve(): the handler clears both timers and assigns ctx.body
Resolve ==
    IF outcome = "pending"
    THEN /\ outcome' = "resolved"
         /\ settledBy' = "finalize"
         /\ hpc' = "done"
         /\ ctxBody' = TRUE
         /\ chunkArmed' = FALSE
         /\ requestArmed' = FALSE
         /\ sinceChunk' = 0
         /\ UNCHANGED <<reason, rmTarget, loopKeys, response, elapsed, requestDeadline>>
    ELSE UNCHANGED <<outcome, settledBy, reason, handlerVars, timerVars>>

\* an awaited fs.promises.rm completes: the file is removed, or rm rejects
\* because it does not exist and the error reaches the error handler of
\* runHandlers, which sends its own 500
CleanupStep ==
    /\ ~crashed
    /\ hpc \in {"rmOpen", "rmLoop"}
    /\ IF rmTarget \notin parser.exists
       THEN /\ hpc' = "errorHandler"
            /\ response' = 500
            /\ rmTarget' = NoStream
            /\ loopKeys' = <<>>
            /\ UNCHANGED parser
       ELSE LET p == [parser EXCEPT !.exists = @ \ {rmTarget}]
            IN /\ parser' = p
               /\ CleanupLoop(p, IF hpc = "rmOpen" THEN ResultKeys(p) ELSE loopKeys)
    /\ UNCHANGED <<callerVars, options, headers, bodyId, pos, stream, outcome, reason, settledBy, timerVars,
                   ctxBody, crashed, lastThrown, prevState, chunkFires>>

(* ---------------------------------------------------------- stream events *)

\* the length of the next chunk of a stream that delivers chunks of ChunkSize
FixedLengths == LET left == Len(body) - pos
                IN { n \in 1..left : n = ChunkSize \/ (n = left /\ left < ChunkSize) }

\* the lengths of the next chunk of a stream that cuts the body anywhere
CutLengths == LET left == Len(body) - pos
              IN { n \in 1..left : n <= MaxChunk \/ n = left }

\* resetChunk that also replaces the request timer by a new one
resetChunk_RearmsRequest ==
    /\ chunkArmed' = TRUE
    /\ sinceChunk' = 0
    /\ requestArmed' = TRUE
    /\ requestDeadline' = elapsed + options.requestTimeout

\* clearTimeout(this.chunkTimeout) and a new chunk timer; the request timer is
\* not touched
resetChunk ==
    /\ chunkArmed' = TRUE
    /\ sinceChunk' = 0
    /\ UNCHANGED <<requestArmed, requestDeadline>>

\* 'data': processChunk(chunk)
processChunk(n) ==
    LET chunk == SubSeq(body, pos + 1, pos + n)
        p == Dispatch(parser, chunk)
    IN /\ pos' = pos + n
       /\ resetChunk
       /\ prevState' = parser.state
       /\ lastThrown' = p.thrown
       /\ crashed' = p.writeAfterEnd
       /\ IF p.thrown # NoError
          THEN Reject([p EXCEPT !.thrown = NoError], ErrToString(p.thrown), "processChunk")
          ELSE /\ parser' = p
               /\ UNCHANGED <<outcome, reason, settledBy, handlerVars>>
       /\ UNCHANGED <<callerVars, options, headers, bodyId, stream, elapsed, chunkFires>>

Data ==
    /\ ~crashed
    /\ outcome # "none"
    /\ stream = "open"
    /\ \E n \in FixedLengths : processChunk(n)

\* a chunk cut anywhere, for as long as the parse has not failed
DataCut ==
    /\ ~crashed
    /\ outcome # "none"
    /\ stream = "open"
    /\ outcome = "pending"
    /\ \E n \in CutLengths : processChunk(n)

\* finalize that rejects whatever the state
finalize_AlwaysRejects ==
    /\ ~crashed
    /\ outcome # "none"
    /\ stream = "open"
    /\ stream' = "ended"
    /\ Reject(parser, <<"Stream closed early">>, "finalize")
    /\ UNCHANGED timerVars
    /\ UNCHANGED <<callerVars, options, headers, bodyId, pos, crashed, lastThrown, prevState, chunkFires>>

\* 'end': finalize()
finalize ==
    /\ ~crashed
    /\ outcome # "none"
    /\ stream = "open"
    /\ stream' = "ended"
    /\ IF parser.state # "end"
       THEN /\ Reject(parser, <<"Stream closed early">>, "finalize")
            /\ UNCHANGED timerVars
       ELSE /\ Resolve
            /\ UNCHANGED parser
    /\ UNCHANGED <<callerVars, options, headers, bodyId, pos, crashed, lastThrown, prevState, chunkFires>>

\* handleClose that leaves the outcome alone
handleClose_Ignores ==
    /\ ~crashed
    /\ outcome # "none"
    /\ stream \in {"open", "ended"}
    /\ stream' = "closed"
    /\ UNCHANGED <<parser, outcome, reason, settledBy, handlerVars>>
    /\ UNCHANGED <<callerVars, options, headers, bodyId, pos, timerVars, crashed, lastThrown, prevState,
                   chunkFires>>

\* 'close': handleClose()
handleClose ==
    /\ ~crashed
    /\ outcome # "none"
    /\ stream \in {"open", "ended"}
    /\ stream' = "closed"
    /\ IF parser.state # "end"
       THEN Reject(parser, <<"Stream closed early">>, "handleClose")
       ELSE UNCHANGED <<parser, outcome, reason, settledBy, handlerVars>>
    /\ UNCHANGED <<callerVars, options, headers, bodyId, pos, timerVars, crashed, lastThrown, prevState,
                   chunkFires>>

(* ----------------------------------------------------------------- timers *)

RejectChunkReason == <<"Request timed out">>
RejectRequestReason == <<"Request timed out">>

ChunkDue == chunkArmed /\ sinceChunk >= options.chunkTimeout
RequestDue == requestArmed /\ elapsed >= requestDeadline

\* one unit of time passes; a timer that is due fires before more time passes
Tick ==
    /\ ~crashed
    /\ chunkArmed \/ requestArmed
    /\ ~ChunkDue /\ ~RequestDue
    /\ sinceChunk' = IF chunkArmed THEN sinceChunk + 1 ELSE sinceChunk
    /\ elapsed' = IF elapsed <= options.requestTimeout THEN elapsed + 1 ELSE elapsed
    /\ UNCHANGED <<callerVars, options, headers, parser, bodyId, pos, stream, outcome, reason, settledBy,
                   chunkArmed, requestArmed, requestDeadline, handlerVars, crashed,
                   lastThrown, prevState, chunkFires>>

\* the chunk timer fires: rejectChunk()
rejectChunk ==
    /\ ~crashed
    /\ ChunkDue
    /\ chunkArmed' = FALSE
    /\ sinceChunk' = 0
    /\ chunkFires' = chunkFires \cup {parser.fileStream}
    /\ Reject(parser, RejectChunkReason, "rejectChunk")
    /\ UNCHANGED <<callerVars, options, headers, bodyId, pos, stream, requestArmed, elapsed, requestDeadline,
                   crashed, lastThrown, prevState>>

\* the request timer fires: rejectRequest()
rejectRequest ==
    /\ ~crashed
    /\ RequestDue
    /\ requestArmed' = FALSE
    /\ Reject(parser, RejectRequestReason, "rejectRequest")
    /\ UNCHANGED <<callerVars, options, headers, bodyId, pos, stream, chunkArmed, sinceChunk, elapsed,
                   requestDeadline, crashed, lastThrown, prevState, chunkFires>>

Next ==
    \/ StreamingMultipartBody
    \/ Data
    \/ finalize
    \/ handleClose
    \/ Tick
    \/ rejectChunk
    \/ rejectRequest
    \/ CleanupStep

Spec == Init /\ [][Next]_vars

\* the stream cuts the body anywhere, no timer fires, and the client sends no
\* more data once the parse has failed
NextCuts ==
    \/ StreamingMultipartBody
    \/ DataCut
    \/ finalize
    \/ handleClose
    \/ CleanupStep

SpecCuts == Init /\ [][NextCuts]_vars

(* ------------------------------------- write streams and the later handler *)

\* a write stream on which end() was called has written its data and closed
\* the file: 'finish'
FileFinish ==
    /\ ~crashed
    /\ \E f \in parser.ended \ finished : finished' = finished \cup {f}
    /\ UNCHANGED <<options, headers, parser, bodyId, pos, stream, outcome, reason,
                   settledBy, timerVars, handlerVars, crashed, lastThrown, prevState,
                   chunkFires, locals, caller, chain>>

\* fs.promises.rm(t) on the files `exists`: the file is removed, or rm rejects
\* because there is none
Rm(exists, t) ==
    IF t \in exists
    THEN [exists |-> exists \ {t}, thrown |-> NoError]
    ELSE [exists |-> exists, thrown |-> "ENOENT"]

\* the file handles of the result map handed to the later handlers
Handles == { i \in 1..Len(parser.result) : parser.result[i].isFile }

\* a later handler calls clear() on a handle of ctx.body
clear ==
    /\ hpc = "done" /\ caller.call = ""
    /\ \E i \in Handles :
         LET t == parser.result[i].tmpLink
             r == Rm(parser.exists, t)
         IN /\ parser' = [parser EXCEPT !.exists = r.exists]
            /\ caller' = [caller EXCEPT !.call = "clear", !.target = t,
                                        !.thrown = r.thrown]
    /\ UNCHANGED <<options, headers, bodyId, pos, stream, outcome, reason, settledBy,
                   timerVars, handlerVars, crashed, lastThrown, prevState, chunkFires,
                   finished, locals, chain>>

\* a later handler calls move(newPath) on a handle of ctx.body: rename, then
\* clear() on the same tmpLink
move ==
    /\ hpc = "done" /\ caller.call = ""
    /\ \E i \in Handles :
         LET t == parser.result[i].tmpLink
         IN IF t \notin parser.exists
            THEN /\ caller' = [caller EXCEPT !.call = "move", !.target = t,
                                             !.thrown = "ENOENT"]
                 /\ UNCHANGED parser
            ELSE LET r == Rm(parser.exists \ {t}, t)
                 IN /\ parser' = [parser EXCEPT !.exists = r.exists]
                    /\ caller' = [caller EXCEPT !.call = "move", !.target = t,
                                                !.thrown = r.thrown,
                                                !.moved = @ \cup {t}]
    /\ UNCHANGED <<options, headers, bodyId, pos, stream, outcome, reason, settledBy,
                   timerVars, handlerVars, crashed, lastThrown, prevState, chunkFires,
                   finished, locals, chain>>

\* a later handler calls ctx.locals.bodyCleanup(): nothing defines that key,
\* and calling undefined throws a TypeError
bodyCleanup ==
    /\ hpc = "done" /\ caller.call = ""
    /\ "bodyCleanup" \notin locals
    /\ caller' = [caller EXCEPT !.call = "bodyCleanup", !.thrown = "TypeError"]
    /\ UNCHANGED <<options, headers, parser, bodyId, pos, stream, outcome, reason,
                   settledBy, timerVars, handlerVars, crashed, lastThrown, prevState,
                   chunkFires, finished, locals, chain>>

\* a request with good headers and generous limits that carries one of PartBodies
InitParts ==
    /\ bodyId \in (Len(Bodies) + 1)..(Len(Bodies) + Len(PartBodies))
    /\ InitRequest
    /\ chain = NoChain
    /\ options.maxFileSize = LargeSize
    /\ headers.contentLength = None
    /\ validateOptions(headers) = NoError /\ readBoundary(headers) # None

\* the stream cuts the body anywhere, write streams finish when they do, and
\* after a success a later handler uses the result; no timer fires
NextParts ==
    \/ StreamingMultipartBody
    \/ DataCut
    \/ finalize
    \/ handleClose
    \/ CleanupStep
    \/ FileFinish
    \/ clear
    \/ move
    \/ bodyCleanup

SpecParts == InitParts /\ [][NextParts]_vars

(* ----------------------------------------------------------------- claims *)

\* what a caller can observe of a result map: each field's string, each file's
\* original name, mime and the bytes of its temp file
ResultView(p) ==
    [i \in 1..Len(p.result) |->
       [name |-> p.result[i].name,
        isFile |-> p.result[i].isFile,
        str |-> p.result[i].str,
        originalFileName |-> p.result[i].originalFileName,
        mime |-> p.result[i].mime,
        bytes |-> IF p.result[i].isFile THEN p.files[p.result[i].tmpLink] ELSE <<>>]]

\* the parser after the whole body was passed to processChunk as one chunk
OneChunk == Dispatch(NewParser, body)

\* C1: chunk-boundary invariance. For a body that parses to the closing
\* delimiter without error when delivered as one chunk, no way of cutting it
\* into chunks makes processChunk throw, and once all of it is delivered the
\* state is 'end', the result map (with the bytes of the temp files) is the
\* one of the one-chunk parse, and the stream's end resolves the parse.
C1_ChunkInvariance ==
    (OneChunk.thrown = NoError /\ OneChunk.state = "end") =>
       /\ lastThrown = NoError
       /\ pos = Len(body) =>
             /\ parser.state = "end"
             /\ ResultView(parser) = ResultView(OneChunk)
             /\ stream = "ended" => outcome = "resolved"

\* the bodies that hold one text field and one file part
RoundTripBodies == {1, 2}

\* C3: round trip. A successful parse of a body with the text field a and the
\* file part u yields the string of a and a temp file holding exactly the
\* bytes of u.
C3_RoundTrip ==
    (bodyId \in RoundTripBodies /\ outcome = "resolved") =>
       /\ Len(parser.result) = 2
       /\ \E i \in 1..Len(parser.result) :
            /\ parser.result[i].name = <<"a">>
            /\ ~parser.result[i].isFile
            /\ parser.result[i].str = ContentA
       /\ \E i \in 1..Len(parser.result) :
            /\ parser.result[i].name = <<"u">>
            /\ parser.result[i].isFile
            /\ parser.files[parser.result[i].tmpLink] = ContentU

\* C2: when the handler sends its 500 response, no temp file of the parse is
\* left on disk.
C2_NoTempFileAtReport ==
    [][(hpc' = "sent500" /\ hpc # "sent500") => parser'.exists = {}]_vars

\* C4: premature close. When 'end' or 'close' is emitted while the state is not
\* 'end' and the outcome is not settled, the parse is rejected with
\* "Stream closed early".
C4_PrematureClose ==
    [][(stream' # stream /\ parser.state # "end" /\ outcome = "pending")
         => (outcome' = "rejected" /\ reason' = <<"Stream closed early">>)]_vars

\* C4 is met after completed parts: the stream ended early with a part stored
C4_Witness ==
    /\ outcome = "rejected"
    /\ reason = <<"Stream closed early">>
    /\ settledBy = "finalize"
    /\ parser.partCounter >= 1

\* C5: when the stream ends in state 'end', a pending parse becomes a success
\* and ctx.body is assigned with no error response sent; an outcome settled
\* before is left as it was.
C5_EndThenSuccess ==
    [][(stream = "open" /\ stream' = "ended" /\ parser.state = "end")
         => IF outcome = "pending"
            THEN outcome' = "resolved" /\ ctxBody' /\ response' = 0
            ELSE outcome' = outcome /\ ctxBody' = ctxBody]_vars

\* C5 is met: a parse resolved at the stream's end and handed over its parts
C5_Witness ==
    /\ outcome = "resolved"
    /\ stream = "ended"
    /\ ctxBody
    /\ parser.partCounter >= 1

\* C6: state 'end' is absorbing, and a chunk that arrives in it changes neither
\* the result map, the counters, the buffered bytes nor the temp files; it
\* rearms the chunk timer.
C6_EndAbsorbing ==
    [][parser.state = "end" =>
         /\ parser'.state = "end"
         /\ pos' # pos =>
              /\ parser'.result = parser.result
              /\ parser'.partCounter = parser.partCounter
              /\ parser'.fileCounter = parser.fileCounter
              /\ parser'.fileByteCounter = parser.fileByteCounter
              /\ parser'.processingBuffer = parser.processingBuffer
              /\ parser'.files = parser.files
              /\ parser'.exists = parser.exists
              /\ chunkArmed' /\ sinceChunk' = 0]_vars

\* C6 is met: a chunk arrived while the state was 'end'
C6_Witness == prevState = "end" /\ parser.state = "end"

\* C7: whenever the chunk timer fired the parse is failed, and once the failure
\* is reported no temp file that was open when the chunk timer fired is left.
C7_ChunkTimeout ==
    /\ chunkFires # {} => outcome = "rejected"
    /\ response = 500 => (chunkFires \ {NoStream}) \cap parser.exists = {}

\* C8: the request timer is the one armed at construction, due requestTimeout
\* after it: a pending parse still has it armed, no parse is pending once more
\* than requestTimeout has elapsed, and a parse it settles is rejected with
\* the timeout reason.
C8_RequestTimer ==
    /\ requestDeadline = options.requestTimeout
    /\ outcome = "pending" => requestArmed
    /\ elapsed > options.requestTimeout => outcome # "pending"
    /\ settledBy = "rejectRequest" =>
         outcome = "rejected" /\ reason = RejectRequestReason

\* C8 is met: chunks kept arriving, the chunk timer never fired, and the
\* request timer ended the parse
C8_Witness ==
    /\ settledBy = "rejectRequest"
    /\ chunkFires = {}
    /\ pos > ChunkSize

\* C9: the failure value of a chunk timeout differs from the one of a request
\* timeout.
C9_DistinctTimeouts ==
    /\ settledBy = "rejectChunk" => reason # RejectRequestReason
    /\ settledBy = "rejectRequest" => reason # RejectChunkReason

\* the last part that completed is a file part
LastPartIsFile(p) ==
    /\ p.fileStream = NoStream
    /\ \E i \in 1..Len(p.result) :
         /\ p.result[i].name = p.partName
         /\ p.result[i].isFile
         /\ p.result[i].tmpLink = p.tmpFileName

\* the parts and the file parts completed so far, in a parse that had not
\* failed before the last chunk (a file part on which 'MaxParts exceeded' was
\* thrown is not counted by fileCounter)
PartsDone(p, thrown) == p.partCounter
FilesDone(p, thrown) ==
    p.fileCounter + (IF thrown = "MaxParts exceeded" /\ LastPartIsFile(p) THEN 1 ELSE 0)

CountErrors == {"MaxParts exceeded", "MaxFiles exceeded"}

\* a chunk is processed by a parse that has not failed yet, and is caught
\* throwing e (NoError: nothing)
ChunkOfPendingParse == pos' # pos /\ outcome = "pending"

FailsWith(e) ==
    /\ lastThrown' = e
    /\ outcome' = "rejected"
    /\ reason' = ErrToString(e)

\* C10 as stated: part number maxParts + 1 fails with 'MaxParts exceeded', file
\* number maxFiles + 1 fails with 'MaxFiles exceeded', counts within the limits
\* fail with neither, and a successful parse is within both limits.
C10_CountsAsStated ==
    [][/\ ChunkOfPendingParse =>
            /\ PartsDone(parser', lastThrown') > options.maxParts
                 => FailsWith("MaxParts exceeded")
            /\ FilesDone(parser', lastThrown') > options.maxFiles
                 => FailsWith("MaxFiles exceeded")
            /\ (/\ PartsDone(parser', lastThrown') <= options.maxParts
                /\ FilesDone(parser', lastThrown') <= options.maxFiles)
                 => lastThrown' \notin CountErrors
       /\ outcome' = "resolved" =>
            /\ parser'.partCounter <= options.maxParts
            /\ parser'.fileCounter <= options.maxFiles]_vars

\* C10 amended: as C10, but file number maxFiles + 1 fails with 'MaxFiles
\* exceeded' only when it is not also part number maxParts + 1 or later: the
\* part count is checked first, and then the failure is 'MaxParts exceeded'.
C10_Counts ==
    [][/\ ChunkOfPendingParse =>
            /\ PartsDone(parser', lastThrown') > options.maxParts
                 => FailsWith("MaxParts exceeded")
            /\ (/\ FilesDone(parser', lastThrown') > options.maxFiles
                /\ PartsDone(parser', lastThrown') <= options.maxParts)
                 => FailsWith("MaxFiles exceeded")
            /\ (/\ PartsDone(parser', lastThrown') <= options.maxParts
                /\ FilesDone(parser', lastThrown') <= options.maxFiles)
                 => lastThrown' \notin CountErrors
       /\ outcome' = "resolved" =>
            /\ parser'.partCounter <= options.maxParts
            /\ parser'.fileCounter <= options.maxFiles]_vars

\* C10 is met: file number maxFiles + 1 completed within maxParts parts and the
\* parse failed with 'MaxFiles exceeded'
C10_Witness ==
    /\ settledBy = "processChunk"
    /\ reason = ErrToString("MaxFiles exceeded")
    /\ parser.fileCounter = options.maxFiles + 1
    /\ parser.partCounter <= options.maxParts

\* the parts of each body in stream order: whether the part is a file part, and
\* the bytes between its header terminator and the boundary that ends it
BodyParts ==
    LET a1 == [name |-> <<"a">>, isFile |-> FALSE, content |-> ContentA, filename |-> <<>>]
        a2 == [name |-> <<"a">>, isFile |-> FALSE, content |-> ContentB, filename |-> <<>>]
        b1 == [name |-> <<"b">>, isFile |-> FALSE, content |-> ContentB, filename |-> <<>>]
        b2 == [name |-> <<"b">>, isFile |-> FALSE, content |-> ContentA, filename |-> <<>>]
        u == [name |-> <<"u">>, isFile |-> TRUE, content |-> ContentU, filename |-> <<"f">>]
        v == [name |-> <<"u">>, isFile |-> TRUE, content |-> ContentV, filename |-> <<"g">>]
    IN << <<a1, u>>, <<u, a1>>, <<u, u>>, <<a1, b1, a2>>, <<a1, v, u>>, <<b1, b2>> >>

\* the part of the body that a parser with the counters of p is reading
PartInProgress(p) == BodyParts[bodyId][p.partCounter + 1]

\* C11: per-file size enforcement. While the parse has not failed, the counter
\* of the open file is the number of bytes written to it; a chunk fails with
\* 'File too large' only on a file part whose content has maxFileSize bytes or
\* more, every file part completed has fewer, and no temp file ever holds
\* maxFileSize bytes or more.
C11_FileSize ==
    [][/\ ChunkOfPendingParse =>
            /\ lastThrown' = "File too large" =>
                 /\ parser'.partCounter < Len(BodyParts[bodyId])
                 /\ PartInProgress(parser').isFile
                 /\ Len(PartInProgress(parser').content) >= options.maxFileSize
            /\ \A k \in 1..parser'.partCounter :
                 (k <= Len(BodyParts[bodyId]) /\ BodyParts[bodyId][k].isFile) =>
                    Len(BodyParts[bodyId][k].content) < options.maxFileSize
            /\ (lastThrown' = NoError /\ parser'.fileStream # NoStream) =>
                 parser'.fileByteCounter = Len(parser'.files[parser'.fileStream])
       /\ \A i \in 1..Len(parser'.files) :
            Len(parser'.files[i]) < options.maxFileSize]_vars

\* C12: every string stored in the result map has fewer than maxFieldSize
\* bytes.
C12_FieldBounded ==
    \A i \in 1..Len(parser.result) :
       ~parser.result[i].isFile => Len(parser.result[i].str) < options.maxFieldSize

\* C13: bounded buffering. After a chunk that was processed without failure
\* the buffer holds at most firstBoundary.length + 4 bytes in state 'boundary',
\* fewer than maxPartHeaderSize in state 'header', fewer than maxFieldSize in
\* state 'body' and at most centerBoundary.length + 4 in state 'file'.
C13_BoundedBuffer ==
    lastThrown = NoError =>
       /\ parser.state = "boundary" =>
            Len(parser.processingBuffer) <= Len(firstBoundary) + 4
       /\ parser.state = "header" =>
            Len(parser.processingBuffer) < options.maxPartHeaderSize
       /\ parser.state = "body" =>
            Len(parser.processingBuffer) < options.maxFieldSize
       /\ parser.state = "file" =>
            Len(parser.processingBuffer) <= Len(centerBoundary) + 4

\* C13 is met: more bytes than the retained tail were received before the
\* first boundary and the buffer was cut down to the tail
C13_Witness ==
    /\ lastThrown = NoError
    /\ parser.state = "boundary"
    /\ pos > Len(firstBoundary) + 4
    /\ Len(parser.processingBuffer) = Len(firstBoundary) + 4

\* the bytes of the chunk that the step delivers
ChunkOfStep == SubSeq(body, pos + 1, pos')

\* kept is a suffix of b
IsSuffix(kept, b) ==
    /\ Len(kept) <= Len(b)
    /\ kept = SubSeq(b, Len(b) - Len(kept) + 1, Len(b))

MinOf(x, y) == IF x <= y THEN x ELSE y

\* the bytes the step appended to the temp file that is open after it
WrittenByStep ==
    LET f == parser'.fileStream
        before == IF f <= Len(parser.files) THEN parser.files[f] ELSE <<>>
    IN SubSeq(parser'.files[f], Len(before) + 1, Len(parser'.files[f]))

\* C14: retained-tail margin. When a chunk leaves the parser in state
\* 'boundary' or in state 'file' without failure (the delimiter was not found),
\* the bytes kept are a suffix of the buffered data at least as long as the
\* delimiter (or all of the data when there is less), and in state 'file' the
\* bytes written followed by the bytes kept are the buffered data.
C14_RetainedTail ==
    [][(ChunkOfPendingParse /\ lastThrown' = NoError /\ parser'.state = parser.state) =>
         LET b == parser.processingBuffer \o ChunkOfStep
             kept == parser'.processingBuffer
         IN /\ parser.state = "boundary" =>
                 /\ IsSuffix(kept, b)
                 /\ Len(kept) >= MinOf(Len(b), Len(firstBoundary))
            /\ parser.state = "file" =>
                 /\ IsSuffix(kept, b)
                 /\ Len(kept) >= MinOf(Len(b), Len(centerBoundary))
                 /\ WrittenByStep \o kept = b]_vars

\* C15: every error is fatal. A chunk that arrives after the parse has failed
\* changes neither the state, the result map, the counters nor the temp files,
\* and once the failure is reported no temp file exists.
C15_ErrorsFatal ==
    [][/\ (outcome = "rejected" /\ pos' # pos) =>
            /\ parser'.state = parser.state
            /\ parser'.result = parser.result
            /\ parser'.partCounter = parser.partCounter
            /\ parser'.fileCounter = parser.fileCounter
            /\ parser'.fileByteCounter = parser.fileByteCounter
            /\ parser'.files = parser.files
            /\ parser'.exists = parser.exists
       /\ response' = 500 => parser'.exists = {}]_vars

\* cleanup() has run to its end on the parser fields p: the write stream in
\* progress, if any, was ended and its file removed, and the file of every
\* handle stored in the result map was removed
CleanupFinished(p) ==
    /\ p.fileStream # NoStream =>
         (p.fileStream \in p.ended /\ p.tmpFileName \notin p.exists)
    /\ \A i \in 1..Len(p.result) :
         p.result[i].isFile => p.result[i].tmpLink \notin p.exists

\* C16: cleanup precedes the failure report. When the error response is sent,
\* cleanup has finished.
C16_CleanupFirst ==
    [][(response' = 500 /\ response # 500) => CleanupFinished(parser')]_vars

\* C17: temp-file ownership. Every temp file on disk is the file in progress
\* or is referenced by a file handle of the result map.
C17_Ownership ==
    \A f \in parser.exists :
       \/ (parser.fileStream # NoStream /\ f = parser.tmpFileName)
       \/ \E i \in 1..Len(parser.result) :
            parser.result[i].isFile /\ parser.result[i].tmpLink = f

\* the last of the first n parts of the body that carries the name nm
LastNamed(nm, n) ==
    CHOOSE k \in 1..n :
       /\ BodyParts[bodyId][k].name = nm
       /\ \A j \in (k + 1)..n : BodyParts[bodyId][j].name # nm

\* the number of file parts among the first k parts of the body
FilesAmong(k) == Cardinality({ j \in 1..k : BodyParts[bodyId][j].isFile })

\* C18: last write wins. After a chunk of a parse that had not failed, with n
\* parts completed, the result map has one entry for each name the first n
\* parts carry and no other, and the entry of a name is the value of the last
\* of those parts with that name: its string, or the handle of its temp file.
C18_LastWriteWins ==
    [][ChunkOfPendingParse =>
         LET n == parser'.partCounter
             r == parser'.result
         IN /\ n <= Len(BodyParts[bodyId])
            /\ \A k \in 1..n : \E i \in 1..Len(r) : r[i].name = BodyParts[bodyId][k].name
            /\ \A i, j \in 1..Len(r) : r[i].name = r[j].name => i = j
            /\ \A i \in 1..Len(r) :
                 /\ \E k \in 1..n : BodyParts[bodyId][k].name = r[i].name
                 /\ LET last == BodyParts[bodyId][LastNamed(r[i].name, n)]
                    IN /\ r[i].isFile = last.isFile
                       /\ ~last.isFile => r[i].str = last.content
                       /\ last.isFile =>
                            /\ r[i].tmpLink = FilesAmong(LastNamed(r[i].name, n))
                            /\ r[i].originalFileName = last.filename]_vars

\* C18 is met: a parse that succeeded holds, for a name that two parts carry,
\* the value of the second part
C18_Witness ==
    /\ bodyId = 6
    /\ outcome = "resolved"
    /\ \E i \in 1..Len(parser.result) :
         parser.result[i].name = <<"b">> /\ parser.result[i].str = ContentA

\* C19: the number of bytes a parse has accepted from the stream never exceeds
\* maxRequestSize.
C19_RequestSizeHard == pos <= options.maxRequestSize

\* the declared content-length is not a finite non-negative number or is
\* greater than maxRequestSize
BadContentLength ==
    /\ headers.contentLength # None
    /\ LET len == ToNumber(headers.contentLength[1])
       IN ~len.finite \/ len.value < 0 \/ len.value > options.maxRequestSize

\* the content-type is missing or does not start with multipart/form-data
BadContentType ==
    \/ headers.contentType = None
    \/ ~StartsWith(headers.contentType[1], MultipartFormData)

\* the content-type has no boundary parameter
NoBoundaryParameter ==
    /\ headers.contentType # None
    /\ LET ct == Split(headers.contentType[1], <<";">>)
       IN \A i \in 1..Len(ct) : ~StartsWith(Trim(ct[i]), KeyBoundary)

\* C20: pre-check. Once the handler has run on a request whose content-length
\* or content-type is bad or lacks a boundary, the request is refused with an
\* error response and no Parser was constructed: no promise, no listener (no
\* byte accepted), no timer armed, no temp file.
C20_PreCheck ==
    (hpc # "entry" /\ (BadContentLength \/ BadContentType \/ NoBoundaryParameter)) =>
       /\ hpc = "refused"
       /\ response = 500
       /\ outcome = "none"
       /\ ~chunkArmed /\ ~requestArmed
       /\ pos = 0
       /\ parser = NewParser

\* C20 is met: a multipart request with a boundary was refused for its
\* content-length alone
C20_Witness ==
    /\ hpc = "refused"
    /\ BadContentLength
    /\ ~BadContentType /\ ~NoBoundaryParameter
    /\ reason = ErrToString("Request too large")

(* ------------------------------------------- parts by their header lines *)

\* what each part of PartBodies says in its header lines, read off the bytes
\* of the body: whether there is a Content-Disposition line, whether its first
\* token is form-data in any letter case, and the name and filename
\* parameters as written between their quotes (None when absent)
PartHeaders ==
    << << [disposition |-> TRUE, formData |-> TRUE,
           name |-> Some(<<"e">>), filename |-> Some(<<>>)] >>,
       << [disposition |-> TRUE, formData |-> TRUE,
           name |-> Some(<<"a", " ", "b">>),
           filename |-> Some(<<"x", " ", "y", ".", "p", "n", "g">>)] >>,
       << [disposition |-> TRUE, formData |-> TRUE,
           name |-> Some(<<"a", " ", "b">>), filename |-> None] >>,
       << [disposition |-> TRUE, formData |-> TRUE,
           name |-> Some(<<"a", ";", "b">>), filename |-> None] >>,
       << [disposition |-> TRUE, formData |-> TRUE,
           name |-> Some(<<"b">>), filename |-> None],
          [disposition |-> FALSE, formData |-> FALSE,
           name |-> None, filename |-> None] >>,
       << [disposition |-> TRUE, formData |-> TRUE,
           name |-> Some(<<"b">>), filename |-> None],
          [disposition |-> TRUE, formData |-> FALSE,
           name |-> Some(<<"a">>), filename |-> None] >>,
       << [disposition |-> TRUE, formData |-> TRUE,
           name |-> Some(<<"u">>), filename |-> Some(<<"g">>)],
          [disposition |-> TRUE, formData |-> TRUE,
           name |-> None, filename |-> Some(<<"f">>)] >> >>

\* the header lines of the parts of the body of this request
HeadersOfBody == PartHeaders[bodyId - Len(Bodies)]

\* the entries of the result that are file handles
FileEntries(p) == { k \in 1..Len(p.result) : p.result[k].isFile }

\* C21: a part whose Content-Disposition carries a filename parameter, empty
\* or not, becomes a file handle backed by a temporary file of its own; a part
\* without one becomes a string and no temporary file is created for it. The
\* k-th entry of the result is the k-th part of these bodies (their names are
\* distinct), and a temporary file exists per file handle plus one for a file
\* part in progress.
C21_RoutingByFilename ==
    bodyId > Len(Bodies) =>
        /\ Len(parser.result) <= Len(HeadersOfBody)
        /\ \A k \in 1..Len(parser.result) :
              /\ parser.result[k].isFile = (HeadersOfBody[k].filename # None)
              /\ parser.result[k].isFile => parser.result[k].tmpLink \in 1..Len(parser.files)
        /\ \A j, k \in FileEntries(parser) :
              j # k => parser.result[j].tmpLink # parser.result[k].tmpLink
        /\ parser.fileStream # NoStream =>
              /\ Len(parser.result) < Len(HeadersOfBody)
              /\ HeadersOfBody[Len(parser.result) + 1].filename # None
        /\ Len(parser.files) = Cardinality(FileEntries(parser))
                               + (IF parser.fileStream # NoStream THEN 1 ELSE 0)

\* the part with filename="" was handed over as a file handle with an empty
\* original file name, backed by a temporary file holding its content
C21_Witness ==
    /\ bodyId = Len(Bodies) + 1
    /\ outcome = "resolved"
    /\ Len(parser.result) = 1
    /\ parser.result[1].isFile
    /\ parser.result[1].originalFileName = <<>>
    /\ parser.files[parser.result[1].tmpLink] = ContentV

\* the error the header lines of a part deserve, NoError when they are acceptable
HeaderError(h) ==
    IF ~h.disposition THEN "Missing Content-Disposition"
    ELSE IF ~h.formData THEN "Invalid Content-Disposition type"
    ELSE IF h.name = None THEN "Missing part name"
    ELSE NoError

HeaderErrors ==
    {"Missing Content-Disposition", "Invalid Content-Disposition type", "Missing part name"}

\* C22: a part whose header lines have no Content-Disposition, a
\* Content-Disposition whose first token is not form-data in any letter case,
\* or no name parameter makes the parse fail: the parser never gets past the
\* header of such a part, a parse of such a body never succeeds, once the
\* whole header was received the parse has failed with the error the header
\* deserves, and at that failure the result, the temporary files and
\* partCounter are those of the parts before it. A header error is raised
\* for such parts only.
C22_InvalidHeadersFail ==
    bodyId > Len(Bodies) =>
        LET k == Len(parser.result) + 1
        IN /\ k <= Len(HeadersOfBody) /\ parser.state \in {"body", "file"}
                => HeaderError(HeadersOfBody[k]) = NoError
           /\ (\E j \in 1..Len(HeadersOfBody) : HeaderError(HeadersOfBody[j]) # NoError)
                => outcome # "resolved"
           /\ /\ k <= Len(HeadersOfBody)
              /\ HeaderError(HeadersOfBody[k]) # NoError
              /\ parser.state = "header"
              /\ pos = Len(body)
              => lastThrown = HeaderError(HeadersOfBody[k])
           /\ lastThrown \in HeaderErrors
                => /\ k <= Len(HeadersOfBody)
                   /\ lastThrown = HeaderError(HeadersOfBody[k])
                   /\ parser.partCounter = k - 1
                   /\ parser.fileStream = NoStream
                   /\ Len(parser.files) = Cardinality(FileEntries(parser))
                   /\ outcome \in {"pending", "rejected"}

\* C23: for every name and filename written between double quotes in a
\* Content-Disposition, the value holding no double quote itself, the name of
\* the entry and the original file name of the handle are the value with the
\* surrounding quotes removed and every inner character preserved.
C23_QuotedValues ==
    bodyId > Len(Bodies) =>
        \A k \in 1..Len(parser.result) :
            /\ k <= Len(HeadersOfBody)
            /\ HeadersOfBody[k].name = Some(parser.result[k].name)
            /\ parser.result[k].isFile
                 => HeadersOfBody[k].filename = Some(parser.result[k].originalFileName)

(* ------------------------------------------------ the caller and the files *)

\* C24: for a file handle whose temporary file exists, move(newPath) completes
\* without error and leaves the file at newPath and none at tmpLink, and
\* clear() completes without error and leaves no file at tmpLink.
C24_MoveAndClear ==
    [][\A i \in Handles :
          LET t == parser.result[i].tmpLink
          IN /\ t \in parser.exists
             /\ caller.call = ""
             /\ caller'.call \in {"move", "clear"}
             /\ caller'.target = t
             => /\ caller'.thrown = NoError
                /\ t \notin parser'.exists
                /\ caller'.call = "move" => t \in caller'.moved]_vars

\* C25: when a parse succeeds the middleware removes none of the temporary
\* files: every file handle handed over refers to a file that exists, both
\* timers are cleared at the hand-over, and from then on no step of the
\* middleware removes a file, arms a timer or leaves the handler's final state.
C25_NoRemovalOnSuccess ==
    [][outcome' = "resolved" =>
          /\ hpc' = "done" /\ ctxBody' /\ response' = 0
          /\ ~chunkArmed' /\ ~requestArmed'
          /\ \A i \in 1..Len(parser'.result) :
                parser'.result[i].isFile => parser'.result[i].tmpLink \in parser'.exists
          /\ outcome = "resolved" => parser'.exists = parser.exists]_vars

\* a parse with a file part succeeded after time had passed with both timers
\* armed, and the stream was closed afterwards
C25_Witness ==
    /\ outcome = "resolved"
    /\ stream = "closed"
    /\ elapsed > 0
    /\ Handles # {}
    /\ \A i \in Handles : parser.result[i].tmpLink \in parser.exists

\* the write streams that were created and on which end() was not called
OpenStreams == (1..Len(parser.files)) \ parser.ended

\* the handler has reported the outcome: ctx.body assigned or a 500 sent
Reported == hpc \in {"done", "sent500", "errorHandler"}

\* C26: over any sequence of chunks, timer firings and stream events, end()
\* is called exactly once on the write stream of each temporary file: never
\* twice, at most one stream is open at any time, and none is open once the
\* outcome has been reported.
C26_EndedOnce ==
    /\ parser.endedTwice = {}
    /\ Cardinality(OpenStreams) <= 1
    /\ Reported => OpenStreams = {}

\* C27: after a successful parse ctx.locals.bodyCleanup is defined by the
\* middleware, and a later handler that calls it gets no error and finds every
\* temporary file referenced by the result map removed.
C27_BodyCleanup ==
    /\ outcome = "resolved" /\ hpc = "done" => "bodyCleanup" \in locals
    /\ caller.call = "bodyCleanup" =>
          /\ caller.thrown = NoError
          /\ \A i \in Handles : parser.result[i].tmpLink \notin parser.exists

\* C28: when the parse has resolved and the result map is handed to the
\* caller, the write stream of every temporary file of the result has finished:
\* every write has completed and the file is closed.
C28_DataOnDisk ==
    outcome = "resolved" =>
        \A i \in Handles : parser.result[i].tmpLink \in finished

(* -------------------------------------------------------------- settlement *)

\* a request that passes the pre-checks, so that a Parser is constructed
InitLive ==
    /\ Init
    /\ headers.contentLength = None
    /\ validateOptions(headers) = NoError /\ readBoundary(headers) # None

\* the event loop runs a timer callback once its delay has passed: time goes
\* on while a timer is armed, and a timer that is due fires
SpecLive ==
    /\ InitLive /\ [][Next]_vars
    /\ WF_vars(Tick) /\ WF_vars(rejectChunk) /\ WF_vars(rejectRequest)

\* C29: armed timers firing when due, the outcome of every constructed Parser
\* eventually becomes success or failure, whatever the stream does: never
\* ending, no longer sending, or closing without 'end' after the closing
\* delimiter was seen.
C29_EventuallySettles == (outcome = "pending") ~> (outcome \in {"resolved", "rejected"})

\* the stream closed without 'end' after the closing delimiter was seen, and
\* the parse was settled by the request timer
C29_Witness ==
    /\ stream = "closed"
    /\ parser.state = "end"
    /\ outcome = "rejected"
    /\ settledBy = "rejectRequest"

\* how far the handler has come: before the Parser, awaiting readyPromise,
\* inside cleanup(), finished
HandlerRank ==
    [h \in {"entry", "await", "rmOpen", "rmLoop", "sent500", "errorHandler", "done", "refused"} |->
       CASE h = "entry" -> 0
         [] h = "await" -> 1
         [] h = "rmOpen" -> 2
         [] h = "rmLoop" -> 3
         [] OTHER -> 4]

\* C30: the outcome of a parse is settled at most once and never changes.
\* After a failure nothing turns it into a success or hands the result to the
\* caller, not even a later 'end' in state 'end'; after a success nothing
\* turns it into a failure or runs cleanup; and cleanup runs at most once: the
\* handler never goes back to an earlier point, and stays where it finished.
C30_SettledOnce ==
    [][/\ outcome \in {"resolved", "rejected"} =>
            /\ outcome' = outcome
            /\ reason' = reason
            /\ settledBy' = settledBy
       /\ outcome = "rejected" => ~ctxBody /\ ~ctxBody' /\ hpc' # "done"
       /\ outcome = "resolved" =>
            /\ hpc = "done" /\ hpc' = "done"
            /\ response' = 0
            /\ parser'.exists = parser.exists
       /\ HandlerRank[hpc'] >= HandlerRank[hpc]
       /\ HandlerRank[hpc] = 4 => hpc' = hpc]_vars

\* after a failure was reported the stream ended with the parser in state
\* 'end': the outcome stayed a failure and ctx.body was not assigned
C30_Witness ==
    /\ outcome = "rejected"
    /\ stream = "ended"
    /\ parser.state = "end"
    /\ hpc = "sent500"
    /\ ~ctxBody

(* ------------------------------------------------------- chunk exhaustion *)

\* the buffered bytes hold nothing that the state of p could still consume
Exhausted(p) ==
    CASE p.state = "boundary" -> IndexOf(p.processingBuffer, firstBoundary) = -1
      [] p.state = "header" ->
            /\ IndexOf(p.processingBuffer, HEADER_END) = -1
            /\ ~StartsWith(Subarray(p.processingBuffer, 0, 2), DASHES)
      [] p.state \in {"body", "file"} -> IndexOf(p.processingBuffer, centerBoundary) = -1
      [] OTHER -> TRUE

\* C31: after processChunk returns without failure the buffered bytes hold
\* nothing the current state could still consume (no first boundary in state
\* 'boundary', no header terminator and no leading '--' in state 'header', no
\* center boundary in state 'body' or 'file'), so a chunk that carries the
\* whole body has all its parts stored by that one call.
C31_ChunkExhausted ==
    [][ChunkOfPendingParse /\ lastThrown' = NoError =>
          /\ Exhausted(parser')
          /\ pos = 0 /\ pos' = Len(body) =>
                /\ parser'.state = "end"
                /\ parser'.partCounter = Len(BodyParts[bodyId])]_vars

\* a chunk that reached the parser in state 'boundary' carried both parts of
\* the body and its closing delimiter, and left all of them stored
C31_Witness ==
    /\ bodyId = 1
    /\ prevState = "boundary"
    /\ pos = Len(body)
    /\ outcome = "pending"
    /\ parser.state = "end"
    /\ parser.partCounter = 2
    /\ Len(parser.result) = 2

(* ---------------------------------------------------- reporting a failure *)

\* armed timers fire when due and an awaited fs.promises.rm completes
SpecReport == SpecLive /\ WF_vars(CleanupStep)

\* C32: a failed parse is never observed as a result: on every failure path
\* ctx.body is not assigned, no later handler of the chain is run (the handler
\* never completes the way it does on success), and the response is finished
\* with status 500.
C32_FailureReported ==
    /\ [](outcome = "rejected" => ~ctxBody /\ hpc # "done")
    /\ (outcome = "rejected") ~> (response = 500)

\* C33: once the outcome of a parse is settled and reported, on success and on
\* failure alike, neither the chunk timer nor the request timer is armed, and
\* no later chunk arms one again.
C33_NoTimerOutlives ==
    outcome \in {"resolved", "rejected"} /\ Reported => ~chunkArmed /\ ~requestArmed

\* C34: a text field whose value is shorter than maxFieldSize bytes is never
\* failed with 'Part exceeding maxFieldSize', however the body is cut into
\* chunks, also when a chunk ends inside the center boundary that follows it.
C34_FieldAcceptance ==
    [][ChunkOfPendingParse /\ lastThrown' = "Part exceeding maxFieldSize" =>
          /\ ~PartInProgress(parser').isFile
          /\ Len(PartInProgress(parser').content) >= options.maxFieldSize]_vars

(* --------------------------------------------------- Currents.runHandlers *)

ChainLen == 2
NotFoundLen == 2

\* what a handler of the route does before it completes: nothing, send a
\* response, ctx.callNotFound(), or throw
HandlerKinds == {"pass", "respond", "notFound", "throw"}

\* what a handler of the not-found chain does: nothing, send the response
\* before its first await, or send it after an await
NotFoundKinds == {"pass", "respond", "respondLater"}

SeqsUpTo(S, n) == UNION { [1..k -> S] : k \in 1..n }

\* the requests: a matched route with its handlers, or no match
Chains ==
    { NewChain(k, n, TRUE) : k \in SeqsUpTo(HandlerKinds, ChainLen),
                             n \in SeqsUpTo(NotFoundKinds, NotFoundLen) }
    \cup { NewChain(<<>>, n, FALSE) : n \in SeqsUpTo(NotFoundKinds, NotFoundLen) }

\* everything but the handler chain
requestVars == <<options, headers, parser, bodyId, pos, stream, outcome, reason, settledBy,
                 timerVars, handlerVars, crashed, lastThrown, prevState, chunkFires,
                 finished, locals, caller>>

\* runHandlers(ctx, this._notFoundHandler, true), call k, from its while
\* condition to its next await or its end
InnerLoop(c, k) ==
    LET f == c.inner[k]
    IN IF f.index < Len(c.nfKinds) /\ ~c.finished
       THEN [c EXCEPT !.inner[k].awaiting = TRUE,
                      !.nfStarted = Append(@, f.index + 1),
                      !.finished = @ \/ c.nfKinds[f.index + 1] = "respond"]
       ELSE [c EXCEPT !.inner[k].awaiting = FALSE,
                      !.warned = @ \/ ~c.finished]

\* this.runHandlers(ctx, this._notFoundHandler, true), not awaited: the call
\* runs up to its first await
StartNotFound(c) ==
    InnerLoop([c EXCEPT !.inner = Append(@, [index |-> 0, awaiting |-> FALSE])],
              Len(c.inner) + 1)

\* runHandlers(ctx, match.handlers) from its while condition to its next await
\* or its end; a started handler is recorded with what ctx said at that moment
OuterLoop(c) ==
    IF c.index < Len(c.kinds) /\ ~c.finished
    THEN [c EXCEPT !.outer = "awaiting",
                   !.started = Append(@, [handler |-> c.index + 1,
                                          completed |-> c.completed,
                                          finished |-> c.finished,
                                          notFound |-> c.notFound])]
    ELSE [c EXCEPT !.outer = "done", !.warned = @ \/ ~c.finished]

\* processRequest: the handlers of the matched route, or the not-found chain
runHandlers ==
    /\ chain.outer = "idle"
    /\ chain.nfKinds # <<>>
    /\ chain' = IF chain.matched
                THEN OuterLoop(chain)
                ELSE [StartNotFound(chain) EXCEPT !.outer = "done"]
    /\ UNCHANGED requestVars

\* the awaited handler of the route completes: index++, return when finished,
\* start the not-found chain when ctx.notFound, go round the loop; an error
\* goes to the error handler, which sends a response
HandlerCompletes ==
    /\ chain.outer = "awaiting"
    /\ LET kind == chain.kinds[chain.index + 1]
           c1 == [chain EXCEPT !.finished = @ \/ kind = "respond",
                               !.notFound = @ \/ kind = "notFound",
                               !.index = @ + 1,
                               !.completed = @ + 1]
       IN chain' = IF kind = "throw"
                   THEN [chain EXCEPT !.outer = "done", !.completed = @ + 1,
                                      !.errored = TRUE, !.finished = TRUE]
                   ELSE IF c1.finished THEN [c1 EXCEPT !.outer = "done"]
                   ELSE IF c1.notFound THEN OuterLoop(StartNotFound(c1))
                   ELSE OuterLoop(c1)
    /\ UNCHANGED requestVars

\* the awaited handler of a not-found chain completes
NotFoundHandlerCompletes ==
    /\ \E k \in 1..Len(chain.inner) :
         /\ chain.inner[k].awaiting
         /\ LET kind == chain.nfKinds[chain.inner[k].index + 1]
                c1 == [chain EXCEPT !.finished = @ \/ kind = "respondLater",
                                    !.inner[k].index = @ + 1]
            IN chain' = IF c1.finished
                        THEN [c1 EXCEPT !.inner[k].awaiting = FALSE]
                        ELSE InnerLoop(c1, k)
    /\ UNCHANGED requestVars

InitHandlers ==
    /\ bodyId = 1
    /\ InitRequest
    /\ options.maxFileSize = LargeSize
    /\ headers = [contentType |-> None, contentLength |-> None]
    /\ chain \in Chains

NextHandlers == runHandlers \/ HandlerCompletes \/ NotFoundHandlerCompletes

SpecHandlers == InitHandlers /\ [][NextHandlers]_vars

\* C35: the handlers of a chain are started one at a time in registration
\* order, each only after the previous one has completed; once a handler has
\* sent a response or called ctx.callNotFound() no remaining handler of the
\* original chain is started, also when the handlers of the not-found chain
\* are asynchronous; and the not-found chain is started at most once.
C35_HandlerOrder ==
    /\ \A k \in 1..Len(chain.started) :
          /\ chain.started[k].handler = k
          /\ chain.started[k].completed = k - 1
          /\ ~chain.started[k].finished
          /\ ~chain.started[k].notFound
    /\ Len(chain.inner) <= 1
====
